---- MODULE Spec2Model ----
(***************************************************************************)
(* Model of homework.py: the homework-status polling bot.                  *)
(*                                                                         *)
(* The program state is main()'s locals (bot, timestamp,                   *)
(* last_message_error), the three module-level tokens, the wall clock and  *)
(* the position of main() (pc).  The remaining variables are history       *)
(* variables that record what happened during the current poll cycle       *)
(* (messages handed to send_message, log lines, the API reply) and a       *)
(* summary of the previous cycle.                                          *)
(*                                                                         *)
(* Texts.  Python strings built with f-strings are modelled as records     *)
(* [fmt, ints, strs]: fmt is the sequence of literal pieces of the         *)
(* template with "{}" for each interpolated value, strs and ints are the   *)
(* interpolated string and integer values in order.  Two texts are equal   *)
(* exactly when template and values are.  The Russian literals of the      *)
(* source are written in English.                                          *)
(***************************************************************************)
EXTENDS Integers, Sequences, FiniteSets, TLC

VARIABLES
    PRACTICUM_TOKEN,     \* module global, homework.py:15
    TELEGRAM_TOKEN,      \* module global, homework.py:16
    TELEGRAM_CHAT_ID,    \* module global, homework.py:17
    pc,                  \* position of main()
    bot,                 \* main(): bot
    timestamp,           \* main(): timestamp (the poll window)
    last_message_error,  \* main(): last_message_error
    clock,               \* int(time.time())
    error,               \* exception caught by `except Exception` in this cycle
    escaping,            \* exception propagating out of main()
    cycle,               \* number of completed poll cycles
    api_calls,           \* number of calls of get_api_answer so far
    token_checks,        \* number of calls of check_tokens so far
    slept,               \* durations of the sleeps since the last get_api_answer
    gap,                 \* value of `slept` when get_api_answer was last called
    response,            \* what the API did in the current cycle
    from_date,           \* params['from_date'] of the current cycle's request
    lme_before,          \* last_message_error at the start of the current cycle
    sent,                \* calls of send_message in the current cycle
    log,                 \* log records written in the current cycle
    prev,                \* summary of the previous cycle
    applied              \* a function applied on its own: argument and result

vars == << PRACTICUM_TOKEN, TELEGRAM_TOKEN, TELEGRAM_CHAT_ID, pc, bot,
           timestamp, last_message_error, clock, error, escaping, cycle,
           api_calls, token_checks, slept, gap, response, from_date,
           lme_before, sent, log, prev, applied >>

(***************************************************************************)
(* Bounds of the model.                                                    *)
(***************************************************************************)
MaxHomeworks == 2
MaxCycles == 2

(***************************************************************************)
(* Program constants.                                                      *)
(***************************************************************************)
RETRY_PERIOD == 600

ENDPOINT == "https://practicum.yandex.ru/api/user_api/homework_statuses/"

HTTPStatus_OK == 200

HOMEWORK_VERDICTS ==
    [approved |-> "Work checked: the reviewer liked everything. Hooray!",
     reviewing |-> "Work taken for review by the reviewer.",
     rejected |-> "Work checked: the reviewer has remarks."]

SOURCE == << "PRACTICUM_TOKEN", "TELEGRAM_TOKEN", "TELEGRAM_CHAT_ID" >>

(***************************************************************************)
(* Texts and exceptions.                                                   *)
(***************************************************************************)
Text(fmt, strs, ints) == [fmt |-> fmt, ints |-> ints, strs |-> strs]

EmptyText == Text(<< >>, << >>, << >>)

Lit(s) == Text(<< s >>, << >>, << >>)

Exc(type, text) == [type |-> type, text |-> text]

NoExc == Exc("", EmptyText)

Raised(e) == e.type # ""

\* str(error): a KeyError prints the repr of its argument, the others the text.
Str(e) ==
    IF e.type = "KeyError"
    THEN Text(<< "'" >> \o e.text.fmt \o << "'" >>, e.text.strs, e.text.ints)
    ELSE e.text

Log(level, text) == [level |-> level, text |-> text]

(***************************************************************************)
(* Python values.                                                          *)
(***************************************************************************)
None == [type |-> "NoneType", value |-> ""]

PyStr(s) == [type |-> "str", value |-> s]

TeleBot(token) == [type |-> "TeleBot", value |-> token]

\* os.getenv: None when the variable is absent, else its (possibly empty) value.
TokenValues == { None, PyStr(""), PyStr("secret") }

Truthy(v) == v.type # "NoneType" /\ v.value # ""

(***************************************************************************)
(* Inputs: what the environment can answer.                                *)
(***************************************************************************)
HomeworkKeys == { "homework_name", "status" }

Homework(keys, name, status) ==
    [keys |-> keys, homework_name |-> name, status |-> status]

\* Records as the API may deliver them: well formed with a recognised status,
\* with an unrecognised status, and with either or both keys missing.
HomeworkRecords ==
    { Homework(HomeworkKeys, "X", "approved"),
      Homework(HomeworkKeys, "X", "rejected"),
      Homework(HomeworkKeys, "X", "in_review"),
      Homework({ "homework_name" }, "X", ""),
      Homework({ "status" }, "", "approved"),
      Homework({}, "", "") }

RECURSIVE SeqsUpTo(_, _)
SeqsUpTo(S, n) ==
    IF n = 0 THEN { << >> }
    ELSE LET shorter == SeqsUpTo(S, n - 1)
         IN  shorter \cup { Append(q, x) : q \in shorter, x \in S }

PyList(items) == [type |-> "list", items |-> items]

NotAList == [type |-> "dict", items |-> << >>]

HomeworksValues ==
    { PyList(q) : q \in SeqsUpTo(HomeworkRecords, MaxHomeworks) } \cup { NotAList }

ServerDates == { 1, 2 }

PyDict(keys, homeworks, current_date) ==
    [type |-> "dict", keys |-> keys, homeworks |-> homeworks,
     current_date |-> current_date]

NotADict == [type |-> "list", keys |-> {}, homeworks |-> NotAList, current_date |-> 0]

Bodies ==
    { NotADict }
    \cup { PyDict({ "homeworks", "current_date" }, h, d) :
             h \in HomeworksValues, d \in ServerDates }
    \cup { PyDict({ "homeworks" }, h, 0) : h \in HomeworksValues }
    \cup { PyDict({ "current_date" }, NotAList, d) : d \in ServerDates }
    \cup { PyDict({}, NotAList, 0) }

Reply(kind, cause, status_code, reason, json_ok, body) ==
    [kind |-> kind, cause |-> cause, status_code |-> status_code,
     reason |-> reason, json_ok |-> json_ok, body |-> body]

\* No request made (outside a cycle).
NoReply == Reply("none", "", 0, "", FALSE, NotADict)

ApiReplies ==
    { Reply("RequestException", "ConnectionError", 0, "", FALSE, NotADict),
      Reply("response", "", 500, "Internal Server Error", FALSE, NotADict),
      Reply("response", "", HTTPStatus_OK, "OK", FALSE, NotADict) }
    \cup { Reply("response", "", HTTPStatus_OK, "OK", TRUE, b) : b \in Bodies }

\* What the Telegram transport does with one bot.send_message call.
Transports == { "ok", "RequestException", "ApiException" }

\* Seconds that pass while the API request is made.
Latencies == { 0, 1 }

(***************************************************************************)
(* check_tokens (homework.py:31-42)                                        *)
(***************************************************************************)
\* globals()[token]
Globals(practicum, telegram, chat) ==
    [n \in { "PRACTICUM_TOKEN", "TELEGRAM_TOKEN", "TELEGRAM_CHAT_ID" } |->
        CASE n = "PRACTICUM_TOKEN" -> practicum
          [] n = "TELEGRAM_TOKEN" -> telegram
          [] OTHER -> chat]

\* A mutant of missing_variables: the last name of SOURCE is not looked at.
missing_variables_skip_last(g) ==
    SelectSeq(SubSeq(SOURCE, 1, Len(SOURCE) - 1), LAMBDA token : ~Truthy(g[token]))

\* [token for token in SOURCE if not globals()[token]]
missing_variables(g) ==
    SelectSeq(SOURCE, LAMBDA token : ~Truthy(g[token]))

\* The result of check_tokens: the exception raised (NoExc when it returns)
\* and the log records written.  ', '.join(missing_variables) is kept as the
\* sequence of the names.
check_tokens(g) ==
    LET missing == missing_variables(g)
        message == Text(<< "Bot stopped. Missing environment variables - ", "{}" >>,
                        missing, << >>)
    IN  IF missing # << >>
        THEN [exc |-> Exc("TokenError", message),
              log |-> << Log("CRITICAL", message) >>]
        ELSE [exc |-> NoExc, log |-> << >>]

(***************************************************************************)
(* send_message (homework.py:45-53)                                        *)
(***************************************************************************)
\* A mutant of send_message: after a delivered message it raises.
send_message_raises_after_delivery(b, chat, message, tx) ==
    LET attempt == Log("DEBUG", Lit("Trying to send a message."))
        Call_(outcome) == [via |-> b.type, to |-> chat, text |-> message,
                           outcome |-> outcome]
    IN  IF b.type # "TeleBot"
        THEN [exc |-> Exc("AttributeError",
                          Text(<< "'", "{}", "' object has no attribute 'send_message'" >>,
                               << b.type >>, << >>)),
              call |-> Call_("raised"),
              log |-> << attempt >>]
        ELSE IF tx = "ok"
        THEN [exc |-> Exc("RuntimeError", Lit("after the send")),
              call |-> Call_("delivered"),
              log |-> << attempt >>]
        ELSE [exc |-> NoExc,
              call |-> Call_("dropped"),
              log |-> << attempt,
                         Log("ERROR", Text(<< "Error sending the message ", "{}" >>,
                                           << tx >>, << >>)) >>]

\* A mutant of send_message: a transport failure is logged and raised again.
send_message_reraises(b, chat, message, tx) ==
    LET attempt == Log("DEBUG", Lit("Trying to send a message."))
        Call_(outcome) == [via |-> b.type, to |-> chat, text |-> message,
                           outcome |-> outcome]
    IN  IF b.type # "TeleBot"
        THEN [exc |-> Exc("AttributeError",
                          Text(<< "'", "{}", "' object has no attribute 'send_message'" >>,
                               << b.type >>, << >>)),
              call |-> Call_("raised"),
              log |-> << attempt >>]
        ELSE IF tx = "ok"
        THEN [exc |-> NoExc,
              call |-> Call_("delivered"),
              log |-> << attempt, Log("DEBUG", Lit("Message sent.")) >>]
        ELSE [exc |-> Exc(tx, Lit("transport failure")),
              call |-> Call_("dropped"),
              log |-> << attempt,
                         Log("ERROR", Text(<< "Error sending the message ", "{}" >>,
                                           << tx >>, << >>)) >>]

\* One call send_message(b, message) when the transport behaves as tx.
\* b.send_message exists only on a TeleBot: on any other object the attribute
\* lookup raises AttributeError, which the except clause of line 52 does not
\* catch.  `call` records the call: the object it went through, the recipient,
\* the text and what became of it.
send_message(b, chat, message, tx) ==
    LET attempt == Log("DEBUG", Lit("Trying to send a message."))
        Call(outcome) == [via |-> b.type, to |-> chat, text |-> message,
                          outcome |-> outcome]
    IN  IF b.type # "TeleBot"
        THEN [exc |-> Exc("AttributeError",
                          Text(<< "'", "{}", "' object has no attribute 'send_message'" >>,
                               << b.type >>, << >>)),
              call |-> Call("raised"),
              log |-> << attempt >>]
        ELSE IF tx = "ok"
        THEN [exc |-> NoExc,
              call |-> Call("delivered"),
              log |-> << attempt, Log("DEBUG", Lit("Message sent.")) >>]
        ELSE [exc |-> NoExc,
              call |-> Call("dropped"),
              log |-> << attempt,
                         Log("ERROR", Text(<< "Error sending the message ", "{}" >>,
                                           << tx >>, << >>)) >>]

(***************************************************************************)
(* get_api_answer (homework.py:56-79)                                      *)
(***************************************************************************)
\* A mutant of get_api_answer: the status code of the response is not looked
\* at.
get_api_answer_any_status(ts, api) ==
    LET asking == Log("DEBUG",
                      Text(<< "Sending a request to the API - ", ENDPOINT,
                              ". Request parameters: {'from_date': ", "{}", "}." >>,
                           << >>, << ts >>))
        asked == Log("DEBUG", Lit("Request sent."))
    IN  IF api.kind = "RequestException"
        THEN [exc |-> Exc("RequestError",
                          Text(<< "Program failure: endpoint ", ENDPOINT,
                                  " is unavailable. ", "{}",
                                  " Request parameters: {'from_date': ", "{}", "}." >>,
                               << api.cause >>, << ts >>)),
              value |-> NotADict,
              log |-> << asking >>]
        ELSE IF ~api.json_ok
        THEN [exc |-> Exc("JSONDecodeError", Lit("Expecting value")),
              value |-> NotADict,
              log |-> << asking, asked >>]
        ELSE [exc |-> NoExc, value |-> api.body, log |-> << asking, asked >>]

get_api_answer(ts, api) ==
    LET asking == Log("DEBUG",
                      Text(<< "Sending a request to the API - ", ENDPOINT,
                              ". Request parameters: {'from_date': ", "{}", "}." >>,
                           << >>, << ts >>))
        asked == Log("DEBUG", Lit("Request sent."))
    IN  IF api.kind = "RequestException"
        THEN [exc |-> Exc("RequestError",
                          Text(<< "Program failure: endpoint ", ENDPOINT,
                                  " is unavailable. ", "{}",
                                  " Request parameters: {'from_date': ", "{}", "}." >>,
                               << api.cause >>, << ts >>)),
              value |-> NotADict,
              log |-> << asking >>]
        ELSE IF api.status_code # HTTPStatus_OK
        THEN [exc |-> Exc("RequestError",
                          Text(<< "Program failure: API response code: ", "{}",
                                  ". Reason: ", "{}" >>,
                               << api.reason >>, << api.status_code >>)),
              value |-> NotADict,
              log |-> << asking, asked >>]
        ELSE IF ~api.json_ok
        \* response.json() raises on a body that is not JSON
        THEN [exc |-> Exc("JSONDecodeError", Lit("Expecting value")),
              value |-> NotADict,
              log |-> << asking, asked >>]
        ELSE [exc |-> NoExc, value |-> api.body, log |-> << asking, asked >>]

(***************************************************************************)
(* check_response (homework.py:82-100)                                     *)
(***************************************************************************)
\* A mutant of check_response: the key is looked for before the type of the
\* answer is checked.
check_response_key_first(resp) ==
    LET begin == Log("DEBUG", Lit("Starting the check of the API answer."))
    IN  IF "homeworks" \notin resp.keys
        THEN [exc |-> Exc("KeyError", Lit("Key homeworks is missing.")),
              value |-> NotAList,
              log |-> << begin >>]
        ELSE IF resp.type # "dict"
        THEN [exc |-> Exc("TypeError",
                          Text(<< "API passed not a dict. Passed ", "{}", "." >>,
                               << resp.type >>, << >>)),
              value |-> NotAList,
              log |-> << begin >>]
        ELSE IF resp.homeworks.type # "list"
        THEN [exc |-> Exc("TypeError",
                          Text(<< "homework holds not a list. Passed ", "{}", "." >>,
                               << resp.homeworks.type >>, << >>)),
              value |-> NotAList,
              log |-> << begin >>]
        ELSE [exc |-> NoExc,
              value |-> resp.homeworks,
              log |-> << begin, Log("DEBUG", Lit("The API answer passed the check.")) >>]

check_response(resp) ==
    LET begin == Log("DEBUG", Lit("Starting the check of the API answer."))
    IN  IF resp.type # "dict"
        THEN [exc |-> Exc("TypeError",
                          Text(<< "API passed not a dict. Passed ", "{}", "." >>,
                               << resp.type >>, << >>)),
              value |-> NotAList,
              log |-> << begin >>]
        ELSE IF "homeworks" \notin resp.keys
        THEN [exc |-> Exc("KeyError", Lit("Key homeworks is missing.")),
              value |-> NotAList,
              log |-> << begin >>]
        ELSE IF resp.homeworks.type # "list"
        THEN [exc |-> Exc("TypeError",
                          Text(<< "homework holds not a list. Passed ", "{}", "." >>,
                               << resp.homeworks.type >>, << >>)),
              value |-> NotAList,
              log |-> << begin >>]
        ELSE [exc |-> NoExc,
              value |-> resp.homeworks,
              log |-> << begin, Log("DEBUG", Lit("The API answer passed the check.")) >>]

(***************************************************************************)
(* parse_status (homework.py:103-123)                                      *)
(***************************************************************************)
\* A mutant of parse_status: the check of the 'status' key is missing, so
\* homework.get('status') is None and falls to the check of the verdicts.
parse_status_no_status_key_check(homework) ==
    LET begin == Log("DEBUG", Lit("Starting the check of the work's status."))
    IN  IF "homework_name" \notin homework.keys
        THEN [exc |-> Exc("KeyError", Lit("Key homework_name is missing.")),
              value |-> EmptyText,
              log |-> << begin >>]
        ELSE IF homework.status \notin DOMAIN HOMEWORK_VERDICTS
        THEN [exc |-> Exc("UnknownHomeworkStatusError",
                          Text(<< "Unknown homework status - ", "{}", "." >>,
                               << homework.status >>, << >>)),
              value |-> EmptyText,
              log |-> << begin >>]
        ELSE [exc |-> NoExc,
              value |-> Text(<< "The review status of the work \"", "{}", "\" changed. ",
                                "{}" >>,
                             << homework.homework_name,
                                HOMEWORK_VERDICTS[homework.status] >>, << >>),
              log |-> << begin,
                         Log("DEBUG", Lit("The work's status passed the check.")) >>]

parse_status(homework) ==
    LET begin == Log("DEBUG", Lit("Starting the check of the work's status."))
    IN  IF "homework_name" \notin homework.keys
        THEN [exc |-> Exc("KeyError", Lit("Key homework_name is missing.")),
              value |-> EmptyText,
              log |-> << begin >>]
        ELSE IF "status" \notin homework.keys
        THEN [exc |-> Exc("KeyError", Lit("Key status is missing.")),
              value |-> EmptyText,
              log |-> << begin >>]
        ELSE IF homework.status \notin DOMAIN HOMEWORK_VERDICTS
        THEN [exc |-> Exc("UnknownHomeworkStatusError",
                          Text(<< "Unknown homework status - ", "{}", "." >>,
                               << homework.status >>, << >>)),
              value |-> EmptyText,
              log |-> << begin >>]
        ELSE [exc |-> NoExc,
              value |-> Text(<< "The review status of the work \"", "{}", "\" changed. ",
                                "{}" >>,
                             << homework.homework_name,
                                HOMEWORK_VERDICTS[homework.status] >>, << >>),
              log |-> << begin,
                         Log("DEBUG", Lit("The work's status passed the check.")) >>]

(***************************************************************************)
(* main (homework.py:126-158)                                              *)
(***************************************************************************)
\* A mutant of bool_list: the `if homeworks:` test is dropped.
bool_list_always(homeworks) == TRUE

\* `if homeworks:` - a list is true when it is not empty.
bool_list(homeworks) == Len(homeworks.items) > 0

\* A mutant of dict_get: the key is never looked up.
dict_get_default(d, key, default) == default

\* A mutant of dict_get: a fixed default instead of the one passed.
dict_get_zero(d, key, default) == IF key \in d.keys THEN d[key] ELSE 0

\* d.get(key, default)
dict_get(d, key, default) == IF key \in d.keys THEN d[key] ELSE default

\* A mutant of getitem_first: the last record instead of the first.
getitem_last(homeworks) == homeworks.items[Len(homeworks.items)]

\* homeworks[0]
getitem_first(homeworks) == homeworks.items[1]

\* The outcome of one pass through the try block: the exception that left it
\* (NoExc when it ran to its end) and the locals, calls and log it leaves.
TryResult(exc, ts, lme, calls, lg) ==
    [exc |-> exc, timestamp |-> ts, last_message_error |-> lme,
     sent |-> calls, log |-> lg]

\* The try block, lines 135-147: b, ts and lme are main's bot, timestamp and
\* last_message_error, api and tx are what the API and the Telegram transport
\* do, now is int(time.time()) at line 146.
TryBody(b, chat, ts, lme, api, tx, now) ==
    LET fetched == get_api_answer(ts, api)
        checked == check_response(fetched.value)
        homeworks == checked.value
        log2 == fetched.log \o checked.log
    IN  IF Raised(fetched.exc)
        THEN TryResult(fetched.exc, ts, lme, << >>, fetched.log)
        ELSE IF Raised(checked.exc)
        THEN TryResult(checked.exc, ts, lme, << >>, log2)
        ELSE IF bool_list(homeworks)
        THEN IF Len(homeworks.items) = 0
             \* homeworks[0] of an empty list
             THEN TryResult(Exc("IndexError", Lit("list index out of range")),
                            ts, lme, << >>, log2)
             ELSE
             LET parsed == parse_status(getitem_first(homeworks))
                 sending == send_message(b, chat, parsed.value, tx)
                 log3 == log2 \o parsed.log
             IN  IF Raised(parsed.exc)
                 THEN TryResult(parsed.exc, ts, lme, << >>, log3)
                 ELSE IF Raised(sending.exc)
                 THEN TryResult(sending.exc, ts, lme, << sending.call >>,
                                log3 \o sending.log)
                 ELSE TryResult(NoExc,
                                dict_get(fetched.value, "current_date", now),
                                EmptyText,
                                << sending.call >>,
                                log3 \o sending.log)
        ELSE TryResult(NoExc,
                       dict_get(fetched.value, "current_date", now),
                       lme,
                       << >>,
                       log2 \o << Log("DEBUG", Lit("No new review status.")) >>)

\* f'... {error}.' of line 150
current_message_error(err) ==
    LET t == Str(err)
    IN  Text(<< "Program failure: " >> \o t.fmt \o << "." >>, t.strs, t.ints)

\* The except block, lines 149-155, handling err.  Line 154 hands
\* TELEGRAM_CHAT_ID to send_message where the bot is expected.
ExceptBody(chat, lme, err, tx) ==
    LET message == current_message_error(err)
        logged == << Log("ERROR", message) >>
        sending == send_message(chat, chat, message, tx)
    IN  IF lme # message
        THEN IF Raised(sending.exc)
             THEN [exc |-> sending.exc, last_message_error |-> lme,
                   sent |-> << sending.call >>, log |-> logged \o sending.log]
             ELSE [exc |-> NoExc, last_message_error |-> message,
                   sent |-> << sending.call >>, log |-> logged \o sending.log]
        ELSE [exc |-> NoExc, last_message_error |-> lme,
              sent |-> << >>, log |-> logged]

\* Before the first cycle.  ok: the try block ran to its end; has_date, date:
\* the current_date of the API answer; now: the clock when the try block was
\* left; verdict: the verdict last handed to send_message, in any cycle so far.
NoPrev ==
    [ok |-> FALSE, verdict |-> EmptyText, has_date |-> FALSE, date |-> 0,
     now |-> 0]

\* The verdict handed to send_message through the bot in this cycle, if any.
VerdictOf(calls) ==
    IF \E i \in 1..Len(calls) : calls[i].via = "TeleBot"
    THEN calls[CHOOSE i \in 1..Len(calls) : calls[i].via = "TeleBot"].text
    ELSE EmptyText

\* A function applied on its own: fn(arg) raised exc or returned value.
Call(fn, arg, done, exc, value) ==
    [fn |-> fn, arg |-> arg, done |-> done, exc |-> exc, value |-> value]

\* main() applies no function on its own.
NoCall == Call("", NotADict, FALSE, NoExc, NotAList)

Init ==
    /\ PRACTICUM_TOKEN \in TokenValues
    /\ TELEGRAM_TOKEN \in TokenValues
    /\ TELEGRAM_CHAT_ID \in TokenValues
    /\ pc = "start"
    /\ bot = None
    /\ timestamp = 0
    /\ last_message_error = EmptyText
    /\ clock = 0
    /\ error = NoExc
    /\ escaping = NoExc
    /\ cycle = 0
    /\ api_calls = 0
    /\ token_checks = 0
    /\ slept = << >>
    /\ gap = << >>
    /\ response = NoReply
    /\ from_date = 0
    /\ lme_before = EmptyText
    /\ sent = << >>
    /\ log = << >>
    /\ prev = NoPrev
    /\ applied = NoCall

\* Lines 128-131: check_tokens, then the bot and the first poll window.
Start ==
    /\ pc = "start"
    /\ LET checked == check_tokens(Globals(PRACTICUM_TOKEN, TELEGRAM_TOKEN,
                                           TELEGRAM_CHAT_ID))
       IN  /\ token_checks' = token_checks + 1
           /\ log' = checked.log
           /\ IF Raised(checked.exc)
              THEN /\ pc' = "token_error"
                   /\ escaping' = checked.exc
                   /\ UNCHANGED << bot, timestamp, last_message_error >>
              ELSE /\ pc' = "try"
                   /\ escaping' = NoExc
                   /\ bot' = TeleBot(TELEGRAM_TOKEN.value)
                   /\ timestamp' = clock
                   /\ last_message_error' = EmptyText
    /\ UNCHANGED << PRACTICUM_TOKEN, TELEGRAM_TOKEN, TELEGRAM_CHAT_ID, clock,
                    error, cycle, api_calls, slept, gap, response, from_date,
                    lme_before, sent, prev, applied >>

\* Lines 134-147: one pass through the try block.
Try ==
    /\ pc = "try"
    /\ cycle < MaxCycles
    /\ \E api \in ApiReplies, tx \in Transports, latency \in Latencies :
         LET now == clock + latency
             r == TryBody(bot, TELEGRAM_CHAT_ID, timestamp, last_message_error,
                          api, tx, now)
         IN  /\ clock' = now
             /\ response' = api
             /\ from_date' = timestamp
             /\ lme_before' = last_message_error
             /\ api_calls' = api_calls + 1
             /\ gap' = slept
             /\ slept' = << >>
             /\ timestamp' = r.timestamp
             /\ last_message_error' = r.last_message_error
             /\ sent' = r.sent
             /\ log' = r.log
             /\ error' = r.exc
             /\ pc' = IF Raised(r.exc) THEN "except" ELSE "finally"
    /\ UNCHANGED << PRACTICUM_TOKEN, TELEGRAM_TOKEN, TELEGRAM_CHAT_ID, bot,
                    escaping, cycle, token_checks, prev, applied >>

\* Lines 149-155: the handler of whatever the try block raised.
Except ==
    /\ pc = "except"
    /\ \E tx \in Transports :
         LET r == ExceptBody(TELEGRAM_CHAT_ID, last_message_error, error, tx)
         IN  /\ last_message_error' = r.last_message_error
             /\ sent' = sent \o r.sent
             /\ log' = log \o r.log
             /\ escaping' = r.exc
    /\ pc' = "finally"
    /\ UNCHANGED << PRACTICUM_TOKEN, TELEGRAM_TOKEN, TELEGRAM_CHAT_ID, bot,
                    timestamp, clock, error, cycle, api_calls, token_checks,
                    slept, gap, response, from_date, lme_before, prev,
                    applied >>

\* What Finally leaves of the cycle that ends: its summary, and empty records
\* for the next one.
EndOfCycle ==
    /\ cycle' = cycle + 1
    /\ prev' = [ok |-> ~Raised(error),
                verdict |-> IF VerdictOf(sent) # EmptyText
                            THEN VerdictOf(sent) ELSE prev.verdict,
                has_date |-> "current_date" \in response.body.keys,
                date |-> response.body.current_date,
                now |-> clock]
    /\ response' = NoReply
    /\ sent' = << >>
    /\ log' = << >>
    /\ error' = NoExc
    /\ UNCHANGED << PRACTICUM_TOKEN, TELEGRAM_TOKEN, TELEGRAM_CHAT_ID, bot,
                    timestamp, last_message_error, escaping, api_calls,
                    token_checks, gap, from_date, lme_before, applied >>

\* A mutant of Finally: the sleep follows the try statement instead of being
\* its finally clause, so an exception leaving the handler skips it.
Finally_sleep_after_try ==
    /\ pc = "finally"
    /\ IF Raised(escaping)
       THEN UNCHANGED << clock, slept >>
       ELSE /\ clock' = clock + RETRY_PERIOD
            /\ slept' = Append(slept, RETRY_PERIOD)
    /\ pc' = IF Raised(escaping) THEN "terminated" ELSE "try"
    /\ EndOfCycle

\* A mutant of Finally: the poll window is moved to the clock in the finally
\* clause, whatever the outcome of the cycle.
Finally_moves_window ==
    /\ pc = "finally"
    /\ clock' = clock + RETRY_PERIOD
    /\ slept' = Append(slept, RETRY_PERIOD)
    /\ pc' = IF Raised(escaping) THEN "terminated" ELSE "try"
    /\ timestamp' = clock
    /\ cycle' = cycle + 1
    /\ prev' = [ok |-> ~Raised(error),
                verdict |-> IF VerdictOf(sent) # EmptyText
                            THEN VerdictOf(sent) ELSE prev.verdict,
                has_date |-> "current_date" \in response.body.keys,
                date |-> response.body.current_date,
                now |-> clock]
    /\ response' = NoReply
    /\ sent' = << >>
    /\ log' = << >>
    /\ error' = NoExc
    /\ UNCHANGED << PRACTICUM_TOKEN, TELEGRAM_TOKEN, TELEGRAM_CHAT_ID, bot,
                    last_message_error, escaping, api_calls, token_checks, gap,
                    from_date, lme_before, applied >>

\* Lines 157-158: the sleep, then the next pass of `while True`, or, when an
\* exception left the handler, out of main().
Finally ==
    /\ pc = "finally"
    /\ clock' = clock + RETRY_PERIOD
    /\ slept' = Append(slept, RETRY_PERIOD)
    /\ pc' = IF Raised(escaping) THEN "terminated" ELSE "try"
    /\ EndOfCycle

Next ==
    \/ Start
    \/ Try
    \/ Except
    \/ Finally

Spec == Init /\ [][Next]_vars

(***************************************************************************)
(* check_response and parse_status applied on their own, to every value of *)
(* a bounded set of arguments.                                             *)
(***************************************************************************)
\* What check_response may be handed: the bodies of the API, values that are
\* no dict (one of them containing 'homeworks'), and dicts whose homeworks
\* is no list.
CheckResponseArgs ==
    Bodies
    \cup { [type |-> t, keys |-> ks, homeworks |-> PyList(<< >>), current_date |-> 0] :
             t \in { "list", "str", "NoneType" }, ks \in { {}, { "homeworks" } } }
    \cup { PyDict({ "homeworks" }, [type |-> t, items |-> << >>], 0) :
             t \in { "NoneType", "str", "dict" } }

\* What parse_status may be handed: either key present or not, two names,
\* the recognised statuses and others.
ParseStatusArgs ==
    { Homework(ks, IF "homework_name" \in ks THEN n ELSE "",
                   IF "status" \in ks THEN st ELSE "") :
        ks \in SUBSET HomeworkKeys,
        n \in { "X", "Y" },
        st \in { "approved", "reviewing", "rejected", "in_review", "" } }

InitApply ==
    /\ PRACTICUM_TOKEN = PyStr("secret")
    /\ TELEGRAM_TOKEN = PyStr("secret")
    /\ TELEGRAM_CHAT_ID = PyStr("secret")
    /\ pc = "apply"
    /\ bot = None
    /\ timestamp = 0
    /\ last_message_error = EmptyText
    /\ clock = 0
    /\ error = NoExc
    /\ escaping = NoExc
    /\ cycle = 0
    /\ api_calls = 0
    /\ token_checks = 0
    /\ slept = << >>
    /\ gap = << >>
    /\ response = NoReply
    /\ from_date = 0
    /\ lme_before = EmptyText
    /\ sent = << >>
    /\ log = << >>
    /\ prev = NoPrev
    /\ applied \in
          { Call("check_response", a, FALSE, NoExc, NotAList) : a \in CheckResponseArgs }
          \cup { Call("parse_status", a, FALSE, NoExc, EmptyText) : a \in ParseStatusArgs }

ApplyUnchanged ==
    UNCHANGED << PRACTICUM_TOKEN, TELEGRAM_TOKEN, TELEGRAM_CHAT_ID, pc, bot,
                 timestamp, last_message_error, clock, error, escaping, cycle,
                 api_calls, token_checks, slept, gap, response, from_date,
                 lme_before, sent, prev >>

ApplyCheckResponse ==
    /\ applied.fn = "check_response"
    /\ ~applied.done
    /\ LET r == check_response(applied.arg)
       IN  /\ applied' = Call(applied.fn, applied.arg, TRUE, r.exc, r.value)
           /\ log' = r.log
    /\ ApplyUnchanged

ApplyParseStatus ==
    /\ applied.fn = "parse_status"
    /\ ~applied.done
    /\ LET r == parse_status(applied.arg)
       IN  /\ applied' = Call(applied.fn, applied.arg, TRUE, r.exc, r.value)
           /\ log' = r.log
    /\ ApplyUnchanged

NextApply ==
    \/ ApplyCheckResponse
    \/ ApplyParseStatus

SpecApply == InitApply /\ [][NextApply]_vars

(***************************************************************************)
(* Properties.                                                             *)
(***************************************************************************)
InCycle == pc \in { "except", "finally" }

\* The try block of the current cycle ran to its end.
CycleSucceeded == pc = "finally" /\ ~Raised(error)

\* The current cycle raised, and its handler has run.
CycleFailed == pc = "finally" /\ Raised(error)

Calls == { sent[i] : i \in 1..Len(sent) }

\* The calls of send_message that reached the bot.
BotCalls == { c \in Calls : c.via = "TeleBot" }

HasCurrentDate == "current_date" \in response.body.keys

\* C1: a verdict is handed to send_message in a cycle only when it differs
\* from the verdict last notified; in particular the second of two
\* consecutive cycles with the same verdict sends nothing.
C1_VerdictSentOnlyOnChange ==
    CycleSucceeded => \A c \in BotCalls : c.text # prev.verdict

\* C2: once check_tokens has succeeded, no error of a poll cycle ends main().
C2_MainNeverTerminates == pc # "terminated"

\* C3: a cycle whose error text differs from the last one notified sends that
\* text to TELEGRAM_CHAT_ID through the bot, once.
C3_ErrorNotifiedThroughBot ==
    (CycleFailed /\ lme_before # current_message_error(error))
        => \E c \in BotCalls :
              /\ c.text = current_message_error(error)
              /\ c.to = TELEGRAM_CHAT_ID
              /\ Len(sent) = 1

\* C4: every cycle ends with exactly one sleep of RETRY_PERIOD, whatever its
\* outcome, and calls get_api_answer exactly once; so exactly one sleep lies
\* between two consecutive calls of get_api_answer.
C4_OneSleepPerCycle ==
    /\ InCycle => slept = << >> /\ api_calls = cycle + 1
    /\ pc \in { "try", "terminated" } =>
          /\ api_calls = cycle
          /\ slept = IF cycle = 0 THEN << >> ELSE << RETRY_PERIOD >>
    /\ api_calls >= 2 => gap = << RETRY_PERIOD >>

\* An error cycle that follows a successful one has slept once, as the
\* successful one did.
C4_Witness ==
    /\ pc = "terminated"
    /\ api_calls = 2
    /\ gap = << RETRY_PERIOD >>
    /\ slept = << RETRY_PERIOD >>

\* The names of the tokens that are empty or absent.
MissingTokens ==
    (IF Truthy(PRACTICUM_TOKEN) THEN {} ELSE { "PRACTICUM_TOKEN" })
    \cup (IF Truthy(TELEGRAM_TOKEN) THEN {} ELSE { "TELEGRAM_TOKEN" })
    \cup (IF Truthy(TELEGRAM_CHAT_ID) THEN {} ELSE { "TELEGRAM_CHAT_ID" })

\* C5: with a token empty or absent check_tokens raises TokenError naming
\* exactly the missing ones, and main() makes no API request, builds no bot
\* and sends nothing; with all three present it raises nothing; it runs
\* exactly once, before the first API request.
C5_TokensCheckedFirst ==
    /\ token_checks = IF pc = "start" THEN 0 ELSE 1
    /\ pc = "start" => api_calls = 0 /\ bot = None
    /\ (MissingTokens # {} /\ pc # "start") =>
          /\ pc = "token_error"
          /\ escaping.type = "TokenError"
          /\ { escaping.text.strs[i] : i \in 1..Len(escaping.text.strs) }
                = MissingTokens
          /\ Len(escaping.text.strs) = Cardinality(MissingTokens)
          /\ api_calls = 0
          /\ cycle = 0
          /\ bot = None
          /\ sent = << >>
    /\ MissingTokens = {} => pc # "token_error" /\ escaping.type # "TokenError"

\* Two of the three tokens are missing, one absent and one empty.
C5_Witness ==
    /\ pc = "token_error"
    /\ PRACTICUM_TOKEN = None
    /\ Truthy(TELEGRAM_TOKEN)
    /\ TELEGRAM_CHAT_ID = PyStr("")
    /\ escaping.text.strs = << "PRACTICUM_TOKEN", "TELEGRAM_CHAT_ID" >>

\* C6: send_message returns normally whatever fails in the send, for verdicts
\* and for error notifications: no call of it raises into main().
C6_SendMessageReturnsNormally ==
    \A c \in Calls : c.outcome # "raised"

\* C7: a successful cycle resets the suppression, so an error that follows a
\* successful cycle is notified whatever was notified before it.
C7_ErrorAfterSuccessNotified ==
    (CycleFailed /\ prev.ok)
        => \E c \in BotCalls :
              /\ c.text = current_message_error(error)
              /\ c.outcome \in { "delivered", "dropped" }

\* The API answered with a mapping whose homeworks is the empty list.
EmptyHomeworks ==
    /\ response.kind = "response"
    /\ response.status_code = HTTPStatus_OK
    /\ response.json_ok
    /\ response.body.type = "dict"
    /\ "homeworks" \in response.body.keys
    /\ response.body.homeworks = PyList(<< >>)

\* C8: a cycle whose answer has "homeworks": [] sends nothing, raises
\* nothing, logs no failure and leaves last_message_error as it was.
C8_EmptyHomeworksSilent ==
    EmptyHomeworks =>
        /\ pc = "finally"
        /\ ~Raised(error)
        /\ ~Raised(escaping)
        /\ sent = << >>
        /\ \A i \in 1..Len(log) : log[i].level = "DEBUG"
        /\ last_message_error = lme_before

C8_Witness ==
    /\ EmptyHomeworks
    /\ pc = "finally"
    /\ cycle = 1
    /\ log # << >>

\* C9: after a cycle without error whose answer has current_date = T the
\* poll window is T, and the next get_api_answer is called with from_date = T.
C9_WindowFollowsCurrentDate ==
    /\ (CycleSucceeded /\ HasCurrentDate) =>
          timestamp = response.body.current_date
    /\ (InCycle /\ prev.ok /\ prev.has_date) => from_date = prev.date

\* A second cycle asked from the first one's current_date, and moved the
\* window to its own, with a verdict sent.
C9_Witness ==
    /\ CycleSucceeded
    /\ HasCurrentDate
    /\ prev.ok /\ prev.has_date
    /\ from_date = 2
    /\ timestamp = 1
    /\ BotCalls # {}

\* C10 as stated: after a cycle without error whose answer has no
\* current_date the poll window is the one the cycle started with.
C10_WindowUnchanged ==
    (CycleSucceeded /\ ~HasCurrentDate) => timestamp = from_date

\* C10 as amended: after a cycle without error whose answer has no
\* current_date the poll window is the wall-clock time read at the end of
\* the try block, and the next get_api_answer is called with that from_date.
C10_WindowFallsBackToClock ==
    /\ (CycleSucceeded /\ ~HasCurrentDate) => timestamp = clock
    /\ (InCycle /\ prev.ok /\ ~prev.has_date) => from_date = prev.now

\* A second cycle without current_date: the window moved from the server's
\* date to the clock.
C10_Witness ==
    /\ CycleSucceeded
    /\ ~HasCurrentDate
    /\ cycle = 1
    /\ from_date \in ServerDates
    /\ timestamp = clock
    /\ timestamp # from_date

\* C11: check_response raises TypeError for an answer that is no dict, else
\* KeyError for one without 'homeworks', else TypeError for one whose
\* homeworks is no list, else returns that list as it is.
C11_CheckResponseOrder ==
    (applied.fn = "check_response" /\ applied.done) =>
        LET a == applied.arg
        IN  IF a.type # "dict"
            THEN applied.exc.type = "TypeError"
            ELSE IF "homeworks" \notin a.keys
            THEN applied.exc.type = "KeyError"
            ELSE IF a.homeworks.type # "list"
            THEN applied.exc.type = "TypeError"
            ELSE /\ ~Raised(applied.exc)
                 /\ applied.value.type = "list"
                 /\ applied.value.items = a.homeworks.items

\* A list of two records came back as it went in.
C11_Witness ==
    /\ applied.fn = "check_response"
    /\ applied.done
    /\ ~Raised(applied.exc)
    /\ Len(applied.value.items) = 2
    /\ applied.value.items[1] # applied.value.items[2]

\* The pieces of a text without integer values, in order, each "{}" of the
\* template replaced by the next interpolated string.
RECURSIVE RenderFrom(_, _)
RenderFrom(fmt, strs) ==
    IF fmt = << >> THEN << >>
    ELSE IF Head(fmt) = "{}"
    THEN << Head(strs) >> \o RenderFrom(Tail(fmt), Tail(strs))
    ELSE << Head(fmt) >> \o RenderFrom(Tail(fmt), strs)

Render(text) == RenderFrom(text.fmt, text.strs)

WellFormed(h) == HomeworkKeys \subseteq h.keys

Recognised(h) == WellFormed(h) /\ h.status \in { "approved", "reviewing", "rejected" }

\* C12: parse_status raises KeyError when 'homework_name' or 'status' is
\* absent, else UnknownHomeworkStatusError when the status is none of
\* approved, reviewing, rejected, else returns a text that contains the name
\* and ends with HOMEWORK_VERDICTS[status]; recognised records with the same
\* name and different statuses get different texts.
C12_ParseStatus ==
    (applied.fn = "parse_status" /\ applied.done) =>
        LET h == applied.arg
            text == Render(applied.value)
        IN  IF ~WellFormed(h)
            THEN applied.exc.type = "KeyError"
            ELSE IF ~Recognised(h)
            THEN applied.exc.type = "UnknownHomeworkStatusError"
            ELSE /\ ~Raised(applied.exc)
                 /\ \E i \in 1..Len(text) : text[i] = h.homework_name
                 /\ text[Len(text)] = HOMEWORK_VERDICTS[h.status]
                 /\ \A g \in ParseStatusArgs :
                       (Recognised(g) /\ g.homework_name = h.homework_name
                           /\ g.status # h.status)
                       => parse_status(g).value # applied.value

\* The text for a record under review.
C12_Witness ==
    /\ applied.fn = "parse_status"
    /\ applied.done
    /\ applied.arg = Homework(HomeworkKeys, "Y", "reviewing")
    /\ Render(applied.value) =
          << "The review status of the work \"", "Y", "\" changed. ",
             "Work taken for review by the reviewer." >>

\* The request of the current cycle failed at transport level or was
\* answered with a status other than 200.
RequestFailed ==
    \/ response.kind = "RequestException"
    \/ response.kind = "response" /\ response.status_code # HTTPStatus_OK

LogTexts == { log[i].text : i \in 1..Len(log) }

\* The log records with which check_response and parse_status begin.
ValidationBegun ==
    \/ Lit("Starting the check of the API answer.") \in LogTexts
    \/ Lit("Starting the check of the work's status.") \in LogTexts

\* C13: get_api_answer raises RequestError when the request fails at
\* transport level and when the status is not 200, and returns the body only
\* for status 200; a cycle in which it raised runs neither check_response nor
\* parse_status, sends no verdict and is handled by the except block like any
\* other error: the error text is logged and handed to send_message.
C13_RequestErrorAbandonsCycle ==
    /\ (InCycle /\ RequestFailed) =>
          /\ error.type = "RequestError"
          /\ ~ValidationBegun
          /\ \A c \in Calls : c.text = current_message_error(error)
          /\ BotCalls = {}
    /\ (InCycle /\ ~Raised(error)) =>
          /\ response.kind = "response"
          /\ response.status_code = HTTPStatus_OK
    /\ CycleFailed =>
          /\ \E i \in 1..Len(log) :
                log[i] = Log("ERROR", current_message_error(error))
          /\ Len(sent) = 1
          /\ sent[1].text = current_message_error(error)

\* A cycle answered with status 500, handled by the except block.
C13_Witness ==
    /\ CycleFailed
    /\ response.status_code = 500
    /\ error.type = "RequestError"
    /\ error.text.ints = << 500 >>
    /\ Len(sent) = 1

\* The API answered with a mapping whose homeworks is a non-empty list.
SomeHomeworks ==
    /\ response.kind = "response"
    /\ response.status_code = HTTPStatus_OK
    /\ response.json_ok
    /\ response.body.type = "dict"
    /\ "homeworks" \in response.body.keys
    /\ response.body.homeworks.type = "list"
    /\ response.body.homeworks.items # << >>

FirstHomework == response.body.homeworks.items[1]

\* The body of the current answer with only the first of its homeworks.
FirstOnly ==
    Reply(response.kind, response.cause, response.status_code, response.reason,
          response.json_ok,
          PyDict(response.body.keys, PyList(<< FirstHomework >>),
                 response.body.current_date))

\* C14: with a non-empty homeworks list only the first record counts: the
\* cycle raises exactly when parse_status raises on it, the verdict sent is
\* parse_status of it, and the locals after the try block are those the
\* same answer with the first record alone would leave.
C14_OnlyFirstHomework ==
    (InCycle /\ SomeHomeworks) =>
        LET first == parse_status(FirstHomework)
        IN  /\ error = first.exc
            /\ ~Raised(first.exc) =>
                  /\ pc = "finally"
                  /\ Len(sent) = 1
                  /\ sent[1].via = "TeleBot"
                  /\ sent[1].text = first.value
            /\ Raised(first.exc) => BotCalls = {}
            /\ \E tx \in Transports :
                  LET alone == TryBody(bot, TELEGRAM_CHAT_ID, from_date, lme_before,
                                       FirstOnly, tx, clock)
                  IN  /\ alone.exc = error
                      /\ alone.timestamp = timestamp
                      /\ \/ CycleFailed
                         \/ /\ alone.sent = sent
                            /\ alone.log = log
                            /\ alone.last_message_error = last_message_error

\* A valid first record followed by one with an unknown status.
C14_Witness ==
    /\ CycleSucceeded
    /\ SomeHomeworks
    /\ Len(response.body.homeworks.items) = 2
    /\ response.body.homeworks.items[1] = Homework(HomeworkKeys, "X", "rejected")
    /\ response.body.homeworks.items[2] = Homework(HomeworkKeys, "X", "in_review")
    /\ Len(sent) = 1
    /\ sent[1].outcome = "delivered"

\* The last cycle has ended, sleep included.
CycleEnded == pc \in { "try", "terminated" } /\ cycle > 0

\* C15: a cycle in which get_api_answer, check_response or parse_status
\* raises leaves the poll window as it was, through the handler and the
\* sleep, so a request made next would ask with the same from_date; the
\* window differs from the cycle's from_date only after a cycle without
\* error.
C15_FailedCycleKeepsWindow ==
    /\ (InCycle /\ Raised(error)) => timestamp = from_date
    /\ (CycleEnded /\ ~prev.ok) => timestamp = from_date
    /\ (CycleEnded /\ timestamp # from_date) => prev.ok

\* The first cycle moved the window to the server's date, the second failed
\* and left it there.
C15_Witness ==
    /\ CycleEnded
    /\ cycle = 2
    /\ ~prev.ok
    /\ from_date \in ServerDates
    /\ timestamp = from_date

\* The calls of send_message of the current cycle that were delivered.
Delivered == { i \in 1..Len(sent) : sent[i].outcome = "delivered" }

\* C16: at most one message is delivered in a cycle, and a cycle that raised
\* hands no verdict to send_message: whatever it sends is the error text, so
\* a verdict and an error notification are never both delivered.
C16_OneMessagePerCycle ==
    InCycle =>
        /\ Cardinality(Delivered) <= 1
        /\ Raised(error) =>
              \A c \in Calls : c.text = current_message_error(error)
        /\ ~Raised(error) =>
              \A c \in Calls : c.via = "TeleBot" /\ c.text # current_message_error(error)

\* A cycle whose first record has an unknown status: the only call of
\* send_message is the one of the handler.
C16_Witness ==
    /\ CycleFailed
    /\ error.type = "UnknownHomeworkStatusError"
    /\ Len(sent) = 1
    /\ Delivered = {}

\* C17: with a non-empty homeworks list and a valid first record the try
\* block runs to its end whether the send was delivered or dropped:
\* last_message_error is '', the poll window is the answer's current_date
\* (the clock without one); and a verdict is handed to send_message only in
\* a cycle whose own answer holds it, so a dropped one is not sent again.
C17_DroppedSendStillUpdates ==
    /\ (InCycle /\ SomeHomeworks /\ ~Raised(parse_status(FirstHomework).exc)) =>
          /\ pc = "finally"
          /\ ~Raised(error)
          /\ ~Raised(escaping)
          /\ Len(sent) = 1
          /\ sent[1].outcome \in { "delivered", "dropped" }
          /\ last_message_error = EmptyText
          /\ timestamp = IF HasCurrentDate THEN response.body.current_date ELSE clock
    /\ (InCycle /\ BotCalls # {}) =>
          /\ SomeHomeworks
          /\ \A c \in BotCalls : c.text = parse_status(FirstHomework).value

\* The transport failed, the failure was logged, the window moved on.
C17_Witness ==
    /\ CycleSucceeded
    /\ Len(sent) = 1
    /\ sent[1].outcome = "dropped"
    /\ \E i \in 1..Len(log) : log[i].level = "ERROR"
    /\ HasCurrentDate
    /\ timestamp = response.body.current_date
    /\ timestamp # from_date

====
